---- MODULE Spec2Model ----
(***************************************************************************)
(* Audio Notes (src/app.py): a Streamlit script that records a clip,       *)
(* transcribes it, stores the text with its embedding in a Qdrant          *)
(* collection and lists, searches and deletes the stored notes.            *)
(*                                                                         *)
(* Two specifications are given.                                           *)
(*   Spec       the program: every step is one user event followed by one  *)
(*              whole run of the script (lines 144-237), or the start of a *)
(*              new browser session.                                       *)
(*   SpecStore  the DB functions (lines 46-137) called directly with       *)
(*              arguments drawn from bounded sets.                         *)
(* The OpenAI and Qdrant services are the environment: every call to them  *)
(* either returns or raises, and a raise ends the script run.              *)
(***************************************************************************)
EXTENDS Integers, Sequences, FiniteSets

\* ---------------------------------------------------------------- bounds
\* Saves a session of Spec may perform before its counter is capped.
MaxSaves == 2
\* add_note_to_db calls of one behaviour of SpecStore.
MaxAdds == 1

\* ------------------------------------------------------------- constants
\* limit = 10 of scroll (line 92) and of search (line 106)
LIMIT == 10

\* Non-empty texts: transcripts, edited notes, queries.
Texts == {"a", "b"}
\* Every text a text widget or the transcription service can return.
AnyText == Texts \cup {""}
\* What the user can type into the search input.
Queries == {"", "a"}
\* Recorded clips (the mp3 bytes of line 190).
Clips == {"c1", "c2"}
\* Keys the user can type into the "Klucz API" input.
UserKeys == {"", "uk"}
\* What .env can hold for OPENAI_API_KEY ("absent": the name is not in env).
EnvKeys == {"absent", "", "ek"}
\* External calls that can raise ("none": no call of the run raises).
FailPoints == {"none", "collection_exists", "create_collection", "transcribe",
               "embed", "upsert", "scroll", "search", "delete", "delete_collection"}

VARIABLES
    env_key,      \* env["OPENAI_API_KEY"], or "absent"
    ss,           \* streamlit session_state
    recorder,     \* value of the audiorecorder widget ("none": nothing recorded)
    query,        \* value of the search text input (line 210)
    page,         \* widgets the last run rendered
    db,           \* the Qdrant collection: [exists, points]
    calls,        \* external calls of the last step, in order
    result,       \* what list_notes_from_db returned in the last step
    last,         \* the event or call of the last step
    prev,         \* SpecStore: the call before it, when it wrote to the index and returned
    transcribed,  \* history: md5 of the clip the last non-empty transcript was produced for
    adds_since,   \* history: adds that returned since the session started or the last wipe
    n_adds        \* SpecStore: add_note_to_db calls made so far

vars == <<env_key, ss, recorder, query, page, db, calls, result, last, prev,
          transcribed, adds_since, n_adds>>

\* ------------------------------------------------------------- helpers
\* hashlib.md5(bytes).hexdigest() (line 191): a digest per clip.
Md5(bytes) == IF bytes = "c1" THEN "d1" ELSE IF bytes = "c2" THEN "d2" ELSE "d0"

\* Similarity the index reports for a stored text against a query (the score of
\* line 113), in hundredths: identical texts score highest.
Score(q, t) == IF q = t THEN 100 ELSE IF t = "" THEN 10 ELSE 40

\* One external call as logged: its name, whether the collection existed when
\* it was issued, and whether it returned (ok) or raised.
Call(name, exists, ok) == [name |-> name, exists |-> exists, ok |-> ok]

\* Calls that address the points of the collection raise when it is missing.
Raises(name, d, fail) ==
    \/ fail = name
    \/ name \in {"upsert", "scroll", "search", "delete"} /\ ~d.exists

EmptyPoints == [i \in {} |-> ""]

\* The ids of `ids` in increasing order.
RECURSIVE SortedIds(_)
SortedIds(ids) ==
    IF ids = {} THEN <<>>
    ELSE LET m == CHOOSE x \in ids : \A y \in ids : x <= y
         IN  <<m>> \o SortedIds(ids \ {m})

\* The ids of `ids` by decreasing score against `q`, ties by increasing id.
RECURSIVE RankedIds(_, _, _)
RankedIds(ids, pts, q) ==
    IF ids = {} THEN <<>>
    ELSE LET m == CHOOSE x \in ids : \A y \in ids :
                      \/ Score(q, pts[x]) > Score(q, pts[y])
                      \/ Score(q, pts[x]) = Score(q, pts[y]) /\ x <= y
         IN  <<m>> \o RankedIds(ids \ {m}, pts, q)

Take(s, n) == SubSeq(s, 1, IF Len(s) < n THEN Len(s) ELSE n)

\* Mutant of Scroll: the scroll stops one point short of the limit.
ScrollShort(d, limit) == Take(SortedIds(DOMAIN d.points), limit - 1)

\* qdrant_client.scroll(limit): the first `limit` points in id order.
Scroll(d, limit) == Take(SortedIds(DOMAIN d.points), limit)

\* qdrant_client.search(query_vector, limit): the `limit` nearest points,
\* nearest first.
Search(d, q, limit) == Take(RankedIds(DOMAIN d.points, d.points, q), limit)

\* ------------------------------------------------------------ DB functions
\* Each returns [db, calls, raised] and what else it yields.

\* Mutant of AssureDbCollectionExists: a missing collection is not created.
AssureOnlyChecks(d, fail) ==
    IF Raises("collection_exists", d, fail)
    THEN [db |-> d, calls |-> <<Call("collection_exists", d.exists, FALSE)>>, raised |-> TRUE]
    ELSE [db |-> d, calls |-> <<Call("collection_exists", d.exists, TRUE)>>, raised |-> FALSE]

\* assure_db_collection_sxists (lines 46-58)
AssureDbCollectionExists(d, fail) ==
    IF Raises("collection_exists", d, fail)
    THEN [db |-> d, calls |-> <<Call("collection_exists", d.exists, FALSE)>>, raised |-> TRUE]
    ELSE IF ~d.exists
    THEN IF Raises("create_collection", d, fail)
         THEN [db |-> d,
               calls |-> <<Call("collection_exists", d.exists, TRUE),
                           Call("create_collection", d.exists, FALSE)>>,
               raised |-> TRUE]
         ELSE [db |-> [exists |-> TRUE, points |-> EmptyPoints],
               calls |-> <<Call("collection_exists", d.exists, TRUE),
                           Call("create_collection", d.exists, TRUE)>>,
               raised |-> FALSE]
    ELSE [db |-> d, calls |-> <<Call("collection_exists", d.exists, TRUE)>>, raised |-> FALSE]

\* The id add_note_to_db writes under (line 79).
NextId(counter) == counter + 1

\* qdrant_client.upsert of one point (lines 75-86): insert or overwrite by id.
Upsert(d, id, text) ==
    [d EXCEPT !.points = [i \in DOMAIN d.points \cup {id} |->
                             IF i = id THEN text ELSE d.points[i]]]

\* Mutant of AddNoteToDb: the counter is advanced before upsert is called.
AddNoteToDbCounterFirst(d, counter, note_text, fail) ==
    IF Raises("embed", d, fail)
    THEN [db |-> d, counter |-> counter,
          calls |-> <<Call("embed", d.exists, FALSE)>>, raised |-> TRUE]
    ELSE IF Raises("upsert", d, fail)
    THEN [db |-> d, counter |-> counter + 1,
          calls |-> <<Call("embed", d.exists, TRUE), Call("upsert", d.exists, FALSE)>>,
          raised |-> TRUE]
    ELSE [db |-> Upsert(d, NextId(counter), note_text), counter |-> counter + 1,
          calls |-> <<Call("embed", d.exists, TRUE), Call("upsert", d.exists, TRUE)>>,
          raised |-> FALSE]

\* add_note_to_db (lines 70-87): the embedding is computed while the argument
\* of upsert is built, the counter is advanced after upsert returns.
AddNoteToDb(d, counter, note_text, fail) ==
    IF Raises("embed", d, fail)
    THEN [db |-> d, counter |-> counter,
          calls |-> <<Call("embed", d.exists, FALSE)>>, raised |-> TRUE]
    ELSE IF Raises("upsert", d, fail)
    THEN [db |-> d, counter |-> counter,
          calls |-> <<Call("embed", d.exists, TRUE), Call("upsert", d.exists, FALSE)>>,
          raised |-> TRUE]
    ELSE [db |-> Upsert(d, NextId(counter), note_text), counter |-> counter + 1,
          calls |-> <<Call("embed", d.exists, TRUE), Call("upsert", d.exists, TRUE)>>,
          raised |-> FALSE]

\* Mutant of Rows: each row is put in front of the rows built so far.
RowsReversed(d, ids, q) ==
    [k \in 1..Len(ids) |->
        [id |-> ids[Len(ids) + 1 - k], text |-> d.points[ids[Len(ids) + 1 - k]],
         score |-> IF q = "" THEN <<>> ELSE <<Score(q, d.points[ids[Len(ids) + 1 - k]])>>]]

\* The result rows built by the loops of lines 93-100 and 108-115, in the
\* order the index returned the points.
Rows(d, ids, q) ==
    [k \in 1..Len(ids) |->
        [id |-> ids[k], text |-> d.points[ids[k]],
         score |-> IF q = "" THEN <<>> ELSE <<Score(q, d.points[ids[k]])>>]]

\* list_notes_from_db (lines 89-115)
ListNotesFromDb(d, q, fail) ==
    IF q = ""
    THEN IF Raises("scroll", d, fail)
         THEN [result |-> <<>>, calls |-> <<Call("scroll", d.exists, FALSE)>>, raised |-> TRUE]
         ELSE [result |-> Rows(d, Scroll(d, LIMIT), q),
               calls |-> <<Call("scroll", d.exists, TRUE)>>, raised |-> FALSE]
    ELSE IF Raises("embed", d, fail)
    THEN [result |-> <<>>, calls |-> <<Call("embed", d.exists, FALSE)>>, raised |-> TRUE]
    ELSE IF Raises("search", d, fail)
    THEN [result |-> <<>>,
          calls |-> <<Call("embed", d.exists, TRUE), Call("search", d.exists, FALSE)>>,
          raised |-> TRUE]
    ELSE [result |-> Rows(d, Search(d, q, LIMIT), q),
          calls |-> <<Call("embed", d.exists, TRUE), Call("search", d.exists, TRUE)>>,
          raised |-> FALSE]

\* Mutant of DeletePoint: the point after the one asked for is deleted.
DeleteNextPoint(d, note_id) ==
    [d EXCEPT !.points = [i \in DOMAIN d.points \ {note_id + 1} |-> d.points[i]]]

\* qdrant_client.delete(points_selector=[note_id]) (lines 123-126)
DeletePoint(d, note_id) ==
    [d EXCEPT !.points = [i \in DOMAIN d.points \ {note_id} |-> d.points[i]]]

\* remove_note_from_db (lines 117-127)
RemoveNoteFromDb(d, note_id, fail) ==
    IF Raises("delete", d, fail)
    THEN [db |-> d, calls |-> <<Call("delete", d.exists, FALSE)>>, raised |-> TRUE]
    ELSE [db |-> DeletePoint(d, note_id),
          calls |-> <<Call("delete", d.exists, TRUE)>>, raised |-> FALSE]

\* Mutant of DropCollection: the collection is left as it is.
DropNothing(d) == d

\* qdrant_client.delete_collection (lines 133-135)
DropCollection(d) == [exists |-> FALSE, points |-> EmptyPoints]

\* remove_all_notes_from_db (lines 129-137)
RemoveAllNotesFromDb(d, fail) ==
    IF Raises("delete_collection", d, fail)
    THEN [db |-> d, calls |-> <<Call("delete_collection", d.exists, FALSE)>>, raised |-> TRUE]
    ELSE [db |-> DropCollection(d),
          calls |-> <<Call("delete_collection", d.exists, TRUE)>>, raised |-> FALSE]

\* ------------------------------------------------------------ session
\* The session state once lines 146-173 have run: a key is stored and the five
\* names of lines 160-173 are set.
SessionReady(key, counter) ==
    [initialized |-> TRUE, openai_api_key |-> key,
     note_audio_bytes_md5 |-> "None", note_audio_bytes |-> "None",
     note_text |-> "", note_audio_text |-> "", id_counter |-> counter]

\* The session state of a new session: nothing is stored (an absent key reads
\* as the empty key, ss.get of lines 147 and 156).
SessionFresh ==
    [initialized |-> FALSE, openai_api_key |-> "",
     note_audio_bytes_md5 |-> "None", note_audio_bytes |-> "None",
     note_text |-> "", note_audio_text |-> "", id_counter |-> 0]

\* A page: the named widgets and the per-note delete buttons (by note id).
NoPage == [widgets |-> {}, deletes |-> {}]

\* A step as kept in `last` and `prev`.
Step(op, text, id, ok) == [op |-> op, text |-> text, id |-> id, ok |-> ok]
NoStep == Step("none", "", 0, TRUE)
\* The step `prev` keeps: the last step when it wrote to the index and returned.
Kept(step) == IF step.ok /\ step.op \in {"add", "delete", "wipe"} THEN step ELSE NoStep

\* ------------------------------------------------------------ SpecStore
\* The DB functions called directly.  The calls start in a session that has
\* saved n notes (ids 1..n, counter n) into a fresh collection, for every n up
\* to the limit of a listing.
PriorPoints(n) == [i \in 1..n |-> "a"]

InitStore ==
    /\ env_key = "ek"
    /\ \E n \in 0..LIMIT :
          /\ ss = SessionReady("ek", n)
          /\ db = [exists |-> TRUE, points |-> PriorPoints(n)]
    /\ recorder = "none"
    /\ query = ""
    /\ page = NoPage
    /\ calls = <<>>
    /\ result = <<>>
    /\ last = NoStep
    /\ prev = NoStep
    /\ transcribed = "None"
    /\ adds_since = 0
    /\ n_adds = 0

StoreUnchanged == UNCHANGED <<env_key, recorder, query, page, transcribed, adds_since>>

StoreEnsure ==
    \E fail \in {"none", "collection_exists", "create_collection"} :
        \E r \in {AssureDbCollectionExists(db, fail)} :
        /\ db' = r.db
        /\ calls' = r.calls
        /\ result' = <<>>
        /\ last' = Step("ensure", "", 0, ~r.raised)
        /\ prev' = Kept(last)
        /\ UNCHANGED <<ss, n_adds>>
        /\ StoreUnchanged

StoreAdd ==
    \E text \in AnyText, fail \in {"none", "embed", "upsert"} :
        \E r \in {AddNoteToDb(db, ss.id_counter, text, fail)} :
        /\ n_adds < MaxAdds
        /\ n_adds' = n_adds + 1
        /\ db' = r.db
        /\ ss' = [ss EXCEPT !.id_counter = r.counter]
        /\ calls' = r.calls
        /\ result' = <<>>
        /\ last' = Step("add", text, NextId(ss.id_counter), ~r.raised)
        /\ prev' = Kept(last)
        /\ StoreUnchanged

StoreList ==
    \E q \in AnyText, fail \in {"none", "embed", "scroll", "search"} :
        \E r \in {ListNotesFromDb(db, q, fail)} :
        /\ calls' = r.calls
        /\ result' = r.result
        /\ last' = Step("list", q, 0, ~r.raised)
        /\ prev' = Kept(last)
        /\ UNCHANGED <<ss, db, n_adds>>
        /\ StoreUnchanged

\* The ids remove_note_from_db is called with: 0 (never stored), the lowest
\* id and the id written last.
DeleteIds == {0, 1, ss.id_counter}

StoreDelete ==
    \E id \in DeleteIds, fail \in {"none", "delete"} :
        \E r \in {RemoveNoteFromDb(db, id, fail)} :
        /\ db' = r.db
        /\ calls' = r.calls
        /\ result' = <<>>
        /\ last' = Step("delete", "", id, ~r.raised)
        /\ prev' = Kept(last)
        /\ UNCHANGED <<ss, n_adds>>
        /\ StoreUnchanged

StoreWipe ==
    \E fail \in {"none", "delete_collection"} :
        \E r \in {RemoveAllNotesFromDb(db, fail)} :
        /\ db' = r.db
        /\ calls' = r.calls
        /\ result' = <<>>
        /\ last' = Step("wipe", "", 0, ~r.raised)
        /\ prev' = Kept(last)
        /\ UNCHANGED <<ss, n_adds>>
        /\ StoreUnchanged

NextStore == StoreEnsure \/ StoreAdd \/ StoreList \/ StoreDelete \/ StoreWipe

SpecStore == InitStore /\ [][NextStore]_vars

\* ------------------------------------------------------------ the script
\* A user event: what the user did to start the run.
Event(op, text, id) == [op |-> op, text |-> text, id |-> id]

\* Whether a call of that name returned in the calls `cs`.
Returned(cs, name) == \E k \in 1..Len(cs) : cs[k].name = name /\ cs[k].ok

\* Lines 147-154: a session without a key takes it from env, or else from the
\* "Klucz API" input (empty until the user types one).
KeyGate(s, ev, envk) ==
    IF s.openai_api_key # "" THEN s
    ELSE IF envk # "absent" THEN [s EXCEPT !.openai_api_key = envk]
    ELSE [s EXCEPT !.openai_api_key = IF ev.op = "enter_key" THEN ev.text ELSE ""]

\* Mutant of GateStops: the run goes on without a key.
GateNeverStops(s) == FALSE

\* Lines 156-157: st.stop() while the session holds no key.
GateStops(s) == s.openai_api_key = ""

\* Lines 160-173: the names not yet in the session are set.
InitSession(s) ==
    IF s.initialized THEN s
    ELSE [s EXCEPT !.initialized = TRUE, !.note_audio_bytes_md5 = "None",
                   !.note_audio_bytes = "None", !.note_text = "",
                   !.note_audio_text = "", !.id_counter = 0]

\* Mutant of OnRecording: a clip with another md5 leaves the note text.
OnRecordingKeepsText(s, bytes) ==
    LET s1 == [s EXCEPT !.note_audio_bytes = bytes]
        current_md5 == Md5(bytes)
    IN  IF s1.note_audio_bytes_md5 # current_md5
        THEN [s1 EXCEPT !.note_audio_text = "", !.note_audio_bytes_md5 = current_md5]
        ELSE s1

\* Lines 190-195: the clip is stored; a clip with another md5 clears the
\* transcript and the note text.
OnRecording(s, bytes) ==
    LET s1 == [s EXCEPT !.note_audio_bytes = bytes]
        current_md5 == Md5(bytes)
    IN  IF s1.note_audio_bytes_md5 # current_md5
        THEN [s1 EXCEPT !.note_audio_text = "", !.note_text = "",
                        !.note_audio_bytes_md5 = current_md5]
        ELSE s1

\* Line 203: the text area shows the transcript until the user edits it, and
\* keeps the edit while it is rendered run after run with the same transcript.
TextArea(transcript, ev, old) ==
    IF ev.op = "edit" THEN ev.text
    ELSE IF "text_area" \in old.page.widgets /\ old.ss.note_audio_text = transcript
    THEN old.ss.note_text
    ELSE transcript

\* A run of the script so far: the session state and the collection as the run
\* has left them, the calls it made, the notes it listed, the widgets it
\* rendered, and whether it has ended by an exception (raised) or by st.stop().
RunOf(s, d) ==
    [ss |-> s, db |-> d, calls |-> <<>>, result |-> <<>>, widgets |-> {},
     deletes |-> {}, raised |-> FALSE, stopped |-> FALSE]

\* A run that has ended executes nothing more.
Ended(r) == r.raised \/ r.stopped

\* Lines 223-228: the on_click callback of a clicked delete button runs before
\* the script.
Callback(r, ev, fail) ==
    IF ev.op # "delete" THEN r
    ELSE LET c == RemoveNoteFromDb(r.db, ev.id, fail) IN
         [r EXCEPT !.db = c.db, !.calls = c.calls, !.raised = c.raised]

\* Lines 146-157: the key gate.  With a key just typed the script is rerun
\* (line 154) and passes the gate; without one the run stops at line 157,
\* showing the key input when env holds no key.
Gate(r, ev, envk) ==
    IF Ended(r) THEN r
    ELSE LET s1 == KeyGate(r.ss, ev, envk) IN
         IF GateStops(s1)
         THEN [r EXCEPT !.ss = s1, !.stopped = TRUE,
                        !.widgets = IF envk = "absent" THEN {"key_input"} ELSE {}]
         ELSE [r EXCEPT !.ss = s1]

\* Lines 159-177: session state initialization and assure_db_collection_sxists.
Ensure(r, fail) ==
    IF Ended(r) THEN r
    ELSE LET a == AssureDbCollectionExists(r.db, fail) IN
         [r EXCEPT !.ss = InitSession(r.ss), !.db = a.db,
                   !.calls = @ \o a.calls, !.raised = a.raised]

\* Lines 182-197: the recorder; a clip is stored and compared (rec is the
\* value of the recorder, "none" when nothing is recorded).
Recorder(r, rec) ==
    IF Ended(r) THEN r
    ELSE IF rec = "none" THEN [r EXCEPT !.widgets = @ \cup {"recorder"}]
    ELSE [r EXCEPT !.ss = OnRecording(r.ss, rec), !.widgets = @ \cup {"recorder"}]

\* Lines 199-200: the transcribe button; t is what the transcription returns.
Transcribe(r, ev, rec, fail, t) ==
    IF Ended(r) \/ rec = "none" THEN r
    ELSE IF ev.op # "transcribe" THEN [r EXCEPT !.widgets = @ \cup {"transcribe"}]
    ELSE IF Raises("transcribe", r.db, fail)
    THEN [r EXCEPT !.widgets = @ \cup {"transcribe"}, !.raised = TRUE,
                   !.calls = Append(@, Call("transcribe", r.db.exists, FALSE))]
    ELSE [r EXCEPT !.widgets = @ \cup {"transcribe"}, !.ss.note_audio_text = t,
                   !.calls = Append(@, Call("transcribe", r.db.exists, TRUE))]

\* Lines 202-203: with a transcript, the note text is what the text area holds.
EditArea(r, ev, rec, old) ==
    IF Ended(r) \/ rec = "none" \/ r.ss.note_audio_text = "" THEN r
    ELSE [r EXCEPT !.ss.note_text = TextArea(r.ss.note_audio_text, ev, old),
                   !.widgets = @ \cup {"text_area"}]

\* Lines 205-207: with a note text, the save button; clicked, it adds the note.
Save(r, ev, rec, fail) ==
    IF Ended(r) \/ rec = "none" \/ r.ss.note_text = "" THEN r
    ELSE IF ev.op # "save" THEN [r EXCEPT !.widgets = @ \cup {"save"}]
    ELSE LET a == AddNoteToDb(r.db, r.ss.id_counter, r.ss.note_text, fail) IN
         [r EXCEPT !.widgets = @ \cup {"save"}, !.db = a.db, !.ss.id_counter = a.counter,
                   !.calls = @ \o a.calls, !.raised = a.raised]

\* Lines 209-230: the notes found get a delete button each.
SearchTab(r, ev, q, fail) ==
    IF Ended(r) THEN r
    ELSE IF ev.op # "search"
    THEN [r EXCEPT !.widgets = @ \cup {"query_input", "search_button"}]
    ELSE LET l == ListNotesFromDb(r.db, q, fail) IN
         [r EXCEPT !.widgets = @ \cup {"query_input", "search_button"},
                   !.calls = @ \o l.calls, !.raised = l.raised, !.result = l.result,
                   !.deletes = {l.result[k].id : k \in 1..Len(l.result)}]

\* Lines 231-237: the counter is reset once the collection is dropped.
DeleteTab(r, ev, fail) ==
    IF Ended(r) THEN r
    ELSE IF ev.op # "wipe" THEN [r EXCEPT !.widgets = @ \cup {"wipe_button"}]
    ELSE LET w == RemoveAllNotesFromDb(r.db, fail) IN
         IF w.raised
         THEN [r EXCEPT !.widgets = @ \cup {"wipe_button"},
                        !.calls = @ \o w.calls, !.raised = TRUE]
         ELSE [r EXCEPT !.widgets = @ \cup {"wipe_button"}, !.db = w.db,
                        !.calls = @ \o w.calls, !.ss.id_counter = 0]

\* The calls of a run that may raise, by event.
FailsOf(op) ==
    {"none", "collection_exists", "create_collection"} \cup
    (CASE op = "transcribe" -> {"transcribe"}
       [] op = "save" -> {"embed", "upsert"}
       [] op = "search" -> {"embed", "scroll", "search"}
       [] op = "delete" -> {"delete"}
       [] op = "wipe" -> {"delete_collection"}
       [] OTHER -> {})

\* ------------------------------------------------------------ Spec
Init ==
    /\ env_key \in EnvKeys
    /\ ss = SessionFresh
    /\ recorder = "none"
    /\ query = ""
    /\ page = NoPage
    /\ db = [exists |-> FALSE, points |-> EmptyPoints]
    /\ calls = <<>>
    /\ result = <<>>
    /\ last = NoStep
    /\ prev = NoStep
    /\ transcribed = "None"
    /\ adds_since = 0
    /\ n_adds = 0

\* The step of event ev in the session s with the widget values rec and q:
\* the callback, then the script from line 144 to line 237, block by block.
Handle(ev, s, rec, q, old) ==
    \E fail \in FailsOf(ev.op), t \in (IF ev.op = "transcribe" THEN AnyText ELSE {""}) :
    \E r1 \in {Callback(RunOf(s, db), ev, fail)} :
    \E r2 \in {Gate(r1, ev, env_key)} :
    \E r3 \in {Ensure(r2, fail)} :
    \E r4 \in {Recorder(r3, rec)} :
    \E r5 \in {Transcribe(r4, ev, rec, fail, t)} :
    \E r6 \in {EditArea(r5, ev, rec, old)} :
    \E r7 \in {Save(r6, ev, rec, fail)} :
    \E r8 \in {SearchTab(r7, ev, q, fail)} :
    \E r \in {DeleteTab(r8, ev, fail)} :
        /\ ss' = r.ss
        /\ db' = r.db
        /\ calls' = r.calls
        /\ result' = r.result
        /\ page' = [widgets |-> r.widgets, deletes |-> r.deletes]
        /\ recorder' = rec
        /\ query' = q
        /\ last' = Step(ev.op, "", 0, ~r.raised)
        /\ transcribed' =
              IF r.ss.note_audio_bytes_md5 # ss.note_audio_bytes_md5 \/ ev.op = "load"
              THEN "None"
              ELSE IF Returned(r.calls, "transcribe") /\ t # ""
              THEN r.ss.note_audio_bytes_md5
              ELSE transcribed
        /\ adds_since' =
              IF ev.op = "load" \/ Returned(r.calls, "delete_collection") THEN 0
              ELSE IF Returned(r.calls, "upsert") THEN adds_since + 1
              ELSE adds_since
        /\ UNCHANGED <<env_key, prev, n_adds>>

Here == [ss |-> ss, page |-> page]

\* A new browser session opens the page: an empty session state, the script runs.
Load == Handle(Event("load", "", 0), SessionFresh, "none", "", [ss |-> SessionFresh, page |-> NoPage])

\* The page is rerun with nothing changed.
Refresh ==
    /\ last.op # "none"
    /\ Handle(Event("rerun", "", 0), ss, recorder, query, Here)

EnterKey ==
    /\ "key_input" \in page.widgets
    /\ \E k \in UserKeys : Handle(Event("enter_key", k, 0), ss, recorder, query, Here)

Record ==
    /\ "recorder" \in page.widgets
    /\ \E c \in Clips : Handle(Event("record", c, 0), ss, c, query, Here)

ClickTranscribe ==
    /\ "transcribe" \in page.widgets
    /\ Handle(Event("transcribe", "", 0), ss, recorder, query, Here)

EditNote ==
    /\ "text_area" \in page.widgets
    /\ \E text \in AnyText \ {ss.note_text} :
          Handle(Event("edit", text, 0), ss, recorder, query, Here)

ClickSave ==
    /\ "save" \in page.widgets
    /\ ss.id_counter < MaxSaves
    /\ Handle(Event("save", "", 0), ss, recorder, query, Here)

TypeQuery ==
    /\ "query_input" \in page.widgets
    /\ \E q \in Queries \ {query} : Handle(Event("query", q, 0), ss, recorder, q, Here)

ClickSearch ==
    /\ "search_button" \in page.widgets
    /\ Handle(Event("search", query, 0), ss, recorder, query, Here)

ClickDelete ==
    \E id \in page.deletes : Handle(Event("delete", "", id), ss, recorder, query, Here)

ClickWipe ==
    /\ "wipe_button" \in page.widgets
    /\ Handle(Event("wipe", "", 0), ss, recorder, query, Here)

Next ==
    \/ Load \/ Refresh \/ EnterKey \/ Record \/ ClickTranscribe \/ EditNote
    \/ ClickSave \/ TypeQuery \/ ClickSearch \/ ClickDelete \/ ClickWipe

Spec == Init /\ [][Next]_vars

\* ------------------------------------------------------------ claims
\* Calls of the last step that address the points of the collection.
PointCalls == {"upsert", "scroll", "search", "delete"}

\* Whether a call of that name was issued in the calls `cs`.
Issued(cs, name) == \E k \in 1..Len(cs) : cs[k].name = name

\* C1 (as claimed): add_note with empty text raises and writes nothing: the
\* call issues no embedding call and no upsert and leaves the collection and
\* the id counter unchanged.
C1_EmptyTextRejected ==
    [][(last'.op = "add" /\ last'.text = "") =>
          /\ ~last'.ok
          /\ calls' = <<>>
          /\ db' = db
          /\ ss'.id_counter = ss.id_counter]_vars

\* SpecStore: list_notes_from_db() returned right after add_note_to_db
\* returned for a non-empty text.
ListedAfterAdd ==
    /\ last.op = "list" /\ last.ok /\ last.text = ""
    /\ prev.op = "add" /\ prev.text # ""

C4_ListCapAndOrder ==
    (last.op = "list" /\ last.ok) =>
        /\ Len(result) <= 10
        /\ last.text # "" =>
              \A i, j \in 1..Len(result) :
                  i < j => result[i].score[1] >= result[j].score[1]

\* C4 witness: a query over more than 10 notes returned 10 rows with
\* different scores.
C4_Witness ==
    /\ last.op = "list" /\ last.ok /\ last.text # ""
    /\ Cardinality(DOMAIN db.points) > 10
    /\ Len(result) = 10
    /\ result[1].score[1] > result[10].score[1]

\* C6: delete_note(id) removes exactly the note with that id and leaves
\* every other note as it was; called again with the same id it raises no
\* error and leaves the collection as the first call left it.
C6_DeleteIdempotent ==
    [][(last'.op = "delete" /\ last'.ok) =>
          /\ db'.exists = db.exists
          /\ DOMAIN db'.points = DOMAIN db.points \ {last'.id}
          /\ \A i \in DOMAIN db'.points : db'.points[i] = db.points[i]
          /\ ~RemoveNoteFromDb(db', last'.id, "none").raised
          /\ (last.op = "delete" /\ last.ok /\ last.id = last'.id) => db' = db]_vars

\* C6 witness: the second of two calls deleting note 1 returned, and other
\* notes are still stored.
C6_Witness ==
    /\ last.op = "delete" /\ last.ok /\ last.id = 1
    /\ prev.op = "delete" /\ prev.id = 1
    /\ 1 \notin DOMAIN db.points
    /\ DOMAIN db.points # {}

\* C3 (as claimed): every add that returns wrote under an id no stored note
\* held, so the number of stored notes grew by exactly one.
C3_AddNeverOverwrites ==
    [][Returned(calls', "upsert") =>
          Cardinality(DOMAIN db'.points) = Cardinality(DOMAIN db.points) + 1]_vars

\* C5: in the run after a wipe dropped the collection, once ensure_collection
\* has returned, list_notes() returns the empty sequence.
C5_WipeThenListEmpty ==
    [][(/\ Returned(calls, "delete_collection")
        /\ Returned(calls', "collection_exists")
        /\ last'.op = "search" /\ last'.ok /\ query' = "")
          => result' = <<>>]_vars

\* C5 witness: a search run recreated the collection, which only a wipe can
\* have dropped, and listed nothing.
C5_Witness ==
    /\ last.op = "search" /\ last.ok /\ query = ""
    /\ Returned(calls, "create_collection")
    /\ Returned(calls, "scroll")
    /\ result = <<>>

\* C7: a run that ends with no key in the session made no external call and
\* rendered nothing but the key input; a key once stored stays as it is for
\* the rest of the session.
C7_NoKeyNoCalls ==
    [][/\ ss'.openai_api_key = "" =>
             (calls' = <<>> /\ page'.widgets \subseteq {"key_input"} /\ page'.deletes = {})
       /\ (ss.openai_api_key # "" /\ last'.op # "load") =>
             ss'.openai_api_key = ss.openai_api_key]_vars

\* C7 witness: the user submitted an empty key and the run stopped at the gate.
C7_Witness ==
    /\ last.op = "enter_key"
    /\ ss.openai_api_key = ""
    /\ calls = <<>>
    /\ page.widgets = {"key_input"}

\* C8: the counter equals the number of adds that returned since the session
\* started or the collection was last wiped; it changes only by one on an add
\* that returns and to 0 on a wipe that returns; a save whose embedding call or
\* upsert raises leaves the counter and the stored notes unchanged.
C8_CounterCountsAdds ==
    [][/\ ss'.initialized => ss'.id_counter = adds_since'
       /\ (last'.op = "save" /\ ~last'.ok) =>
             (db'.points = db.points /\ ss'.id_counter = ss.id_counter)
       /\ (ss.initialized /\ last'.op # "load" /\ ss'.id_counter # ss.id_counter) =>
             \/ Returned(calls', "upsert") /\ ss'.id_counter = ss.id_counter + 1
             \/ Returned(calls', "delete_collection") /\ ss'.id_counter = 0]_vars

\* C8 witness: after one add that returned, the upsert of the next save raised
\* and the counter is still 1.
C8_Witness ==
    /\ last.op = "save" /\ ~last.ok
    /\ Issued(calls, "upsert")
    /\ ss.id_counter = 1
    /\ adds_since = 1

\* C9: no upsert, scroll, search or delete is issued while the collection
\* does not exist.
C9_PointCallsFindCollection ==
    \A k \in 1..Len(calls) : calls[k].name \in PointCalls => calls[k].exists

\* C9 witness: a save or search run recreated the dropped collection and then
\* reached the index.
C9_Witness ==
    /\ last.op \in {"save", "search"}
    /\ Returned(calls, "create_collection")
    /\ \E k \in 1..Len(calls) : calls[k].name \in PointCalls /\ calls[k].exists

\* C10 (as claimed): at the end of every run a non-empty note text implies a
\* non-empty transcript produced for the clip whose md5 is stored, and a save
\* reaches add_note only then.
C10_NoteTextHasTranscript ==
    (ss.note_text # "" \/ (last.op = "save" /\ Issued(calls, "embed"))) =>
        (ss.note_audio_text # "" /\ transcribed = ss.note_audio_bytes_md5)

\* C10 (amended): a recording with another md5 clears the transcript and the
\* note text and updates the stored md5; at the end of every run a non-empty
\* note text implies that a non-empty transcript has been produced for the
\* clip whose md5 is stored since that clip arrived, and a save reaches
\* add_note only then.
C10_NoteTextFromTranscribedClip ==
    [][/\ (ss'.note_text # "" \/ (last'.op = "save" /\ Issued(calls', "embed"))) =>
             (transcribed' = ss'.note_audio_bytes_md5 /\ transcribed' # "None")
       /\ (ss.initialized /\ last'.op # "load"
             /\ ss'.note_audio_bytes_md5 # ss.note_audio_bytes_md5) =>
             /\ ss'.note_text = ""
             /\ ss'.note_audio_text = ""
             /\ ss'.note_audio_bytes_md5 = Md5(recorder')]_vars

\* C10 witness: a note is saved whose clip was transcribed, although a later
\* transcription of the same clip returned the empty text.
C10_Witness ==
    /\ last.op = "save" /\ Returned(calls, "upsert")
    /\ ss.note_text # ""
    /\ ss.note_audio_text = ""
    /\ transcribed = ss.note_audio_bytes_md5

====
